---- MODULE Spec2Model ----
(***************************************************************************)
(* rmsd_stats_matlab.py: extract_rmsd and the end of the main block.       *)
(*                                                                         *)
(* A file name is a sequence of one-character strings, so that the filter  *)
(* of line 90, the regular expression of line 86 and the sort of line 97   *)
(* are computed character by character.  A directory listing is drawn when *)
(* os.listdir is called and a file's content when pd.read_csv is called:   *)
(* every directory is listed once and every file read once, so this is the *)
(* same as a disk fixed before the run.                                    *)
(***************************************************************************)
EXTENDS Integers, Sequences, FiniteSets, TLC

\* Bounds of the model.
MaxConds == 2
MaxFrames == 2
MaxMid == 6

(***************************************************************************)
(* Characters and file names                                               *)
(***************************************************************************)

\* The characters of the model's file names, in code point order.
Alphabet ==
  << ".", "1", "2", "9", "D", "M", "R", "S", "_", "a", "b", "c", "g", "h",
     "i", "m", "o", "r", "s", "t", "v", "x" >>

Ord(ch) == CHOOSE i \in 1..Len(Alphabet) : Alphabet[i] = ch

lit_RMSD == << "R", "M", "S", "D" >>
lit_RMSD_ == << "R", "M", "S", "D", "_" >>
lit_histogram == << "h", "i", "s", "t", "o", "g", "r", "a", "m" >>
lit_csv == << ".", "c", "s", "v" >>

\* RMSD_s1_x.csv
fn_s1 == lit_RMSD_ \o << "s", "1", "_", "x" >> \o lit_csv
\* RMSD_s2_a_b.csv
fn_s2ab == lit_RMSD_ \o << "s", "2", "_", "a", "_", "b" >> \o lit_csv
\* RMSD_s9_x.csv
fn_s9 == lit_RMSD_ \o << "s", "9", "_", "x" >> \o lit_csv
\* RMSD_s1.csv
fn_short == lit_RMSD_ \o << "s", "1" >> \o lit_csv
\* RMSD_histogram_s1.csv
fn_hist == lit_RMSD_ \o lit_histogram \o << "_", "s", "1" >> \o lit_csv

\* The names a directory of the model may hold.
FileNames == { fn_s1, fn_s2ab, fn_s9, fn_short, fn_hist }

\* More names, for the runs over one directory that holds one file: RMSD, then up
\* to MaxMid underscores and letters, then .csv.
ParseNames ==
  { lit_RMSD \o w \o lit_csv : w \in UNION { [1..k -> {"_", "a"}] : k \in 0..MaxMid } }

AllNames == FileNames \cup ParseNames

\* What os.listdir may return: any of the names of FileNames, or at most one of
\* the names of ParseNames.
Listings == SUBSET FileNames

ParseListings == { {} } \cup { {fn} : fn \in ParseNames }

\* s has the literal p at position i.
HasAt(s, i, p) ==
  /\ i >= 1
  /\ i + Len(p) - 1 <= Len(s)
  /\ \A k \in 1..Len(p) : s[i + k - 1] = p[k]

startswith(s, p) == HasAt(s, 1, p)

endswith(s, p) == HasAt(s, Len(s) - Len(p) + 1, p)

contains(s, p) == \E i \in 1..Len(s) : HasAt(s, i, p)

\* A faulty filter, for comparison: the histogram files are kept.
IsKept_with_histogram(fn) ==
  /\ startswith(fn, lit_RMSD)
  /\ endswith(fn, lit_csv)

\* The condition of the list comprehension.
IsKept(fn) ==
  /\ startswith(fn, lit_RMSD)
  /\ ~ contains(fn, lit_histogram)
  /\ endswith(fn, lit_csv)

\* a < b for str: the first differing code point decides, a proper prefix is less.
StrLess(a, b) ==
  \/ /\ Len(a) < Len(b)
     /\ \A k \in 1..Len(a) : a[k] = b[k]
  \/ \E i \in 1..Len(a) :
        /\ i <= Len(b)
        /\ \A k \in 1..(i - 1) : a[k] = b[k]
        /\ Ord(a[i]) < Ord(b[i])

\* A faulty sort, for comparison: descending.
RECURSIVE sorted_descending(_)
sorted_descending(S) ==
  IF S = {} THEN << >>
  ELSE LET greatest == CHOOSE a \in S : \A b \in S \ {a} : StrLess(b, a)
       IN  << greatest >> \o sorted_descending(S \ {greatest})

\* sorted() of a collection of distinct names.
RECURSIVE sorted(_)
sorted(S) ==
  IF S = {} THEN << >>
  ELSE LET least == CHOOSE a \in S : \A b \in S \ {a} : StrLess(a, b)
       IN  << least >> \o sorted(S \ {least})

(***************************************************************************)
(* pattern = re.compile("RMSD_(.+)_.+\\.csv"); pattern.search(item)       *)
(***************************************************************************)

\* "." matches any character but a newline.
Dot(ch) == ch # "\n"

\* The ends j of group 1 for a match that starts at i: RMSD_ at i, group 1 is
\* s[i+5..j], an underscore at j+1, one character or more, then .csv at k.
GroupEnds(s, i) ==
  { j \in (i + 5)..Len(s) :
      /\ HasAt(s, i, lit_RMSD_)
      /\ \A p \in (i + 5)..j : Dot(s[p])
      /\ HasAt(s, j + 1, << "_" >>)
      /\ \E k \in (j + 3)..Len(s) :
            /\ HasAt(s, k, lit_csv)
            /\ \A p \in (j + 2)..(k - 1) : Dot(s[p]) }

Max(S) == CHOOSE x \in S : \A y \in S : y <= x

Min(S) == CHOOSE x \in S : \A y \in S : x <= y

\* A faulty search, for comparison: group 1 as (.+?) would give it, the shortest.
pattern_search_lazy(s) ==
  LET starts == { i \in 1..Len(s) : GroupEnds(s, i) # {} }
  IN  IF starts = {} THEN << >>
      ELSE LET i == Min(starts)
           IN  << SubSeq(s, i + 5, Min(GroupEnds(s, i))) >>

\* search: the leftmost start that matches; (.+) is greedy: the longest group 1.
\* << >> is None (no match), << g >> a match whose group(1) is g.
pattern_search(s) ==
  LET starts == { i \in 1..Len(s) : GroupEnds(s, i) # {} }
  IN  IF starts = {} THEN << >>
      ELSE LET i == Min(starts)
           IN  << SubSeq(s, i + 5, Max(GroupEnds(s, i))) >>

\* The three functions above on the names of the model, computed once.
IsKeptOf == [fn \in AllNames |-> IsKept(fn)]

sortedOf == [S \in Listings \cup ParseListings |-> sorted(S)]

pattern_searchOf == [fn \in AllNames |-> pattern_search(fn)]

(***************************************************************************)
(* The inputs                                                              *)
(***************************************************************************)

\* Sample names, as pattern.search returns them.
s1 == << "s", "1" >>
s2 == << "s", "2" >>
s2_a == << "s", "2", "_", "a" >>
s_a == << "a" >>
s_a_a == << "a", "_", "a" >>

\* Sheet 1 and sheet 2 of the index file, as pd.read_excel returns them: rows in
\* sheet order.  Sample s9 and condition KO are in neither sheet; s1 is listed
\* twice.
sheet_samples ==
  << [sample |-> s1, index |-> 1], [sample |-> s2_a, index |-> 2],
     [sample |-> s2, index |-> 3], [sample |-> s1, index |-> 7],
     [sample |-> s_a, index |-> 4], [sample |-> s_a_a, index |-> 5] >>

sheet_conditions ==
  << [condition |-> "WT", index |-> 10], [condition |-> "ins", index |-> 20] >>

CondNames == { "WT", "ins", "KO" }

\* The manifest of get_conditions: one row per line, at least one row, the color
\* column left out (extract_rmsd never reads it).  Every condition is listed once.
Manifests ==
  UNION { { [i \in 1..n |-> [condition |-> f[i], path |-> << "inputs", f[i] >>]] :
              f \in { g \in [1..n -> CondNames] :
                        \A i, j \in 1..n : i # j => g[i] # g[j] } } :
          n \in 1..MaxConds }

\* args.out, and the places args.index may name: another directory, or the
\* directory of the output file.
data_out_path == [dir |-> "out", base |-> "data.csv"]

IndexPaths == { [dir |-> "in", base |-> "index.xlsx"],
                [dir |-> "out", base |-> "index.xlsx"] }

\* The position of a file name in a fixed enumeration of the names.
FileIdOf ==
  LET names == sorted(FileNames)
  IN  [fn \in AllNames |->
         IF fn \in FileNames THEN CHOOSE i \in 1..Len(names) : names[i] = fn ELSE 0]

\* pd.read_csv of the file `item` of manifest row `row`, holding n frames: the
\* frames column counts up, the RMSD column goes down, and every RMSD value tells
\* the file and the line it comes from.
read_csv(row, item, n) ==
  [ frames |-> [p \in 1..n |-> p],
    RMSD |-> [p \in 1..n |-> 100 * row + 10 * FileIdOf[item] + (9 - p)] ]

(***************************************************************************)
(* The state                                                               *)
(***************************************************************************)

VARIABLES
  conditions,            \* the manifest rows
  index_file,            \* args.index
  pc,                    \* "cond", "filter", "file", "write", "copy", "done", "exited"
  ci,                    \* the row of conditions.iterrows() at hand
  entries,               \* what os.listdir returned, until the comprehension ends
  items,                 \* sorted(by_condition)
  fi,                    \* the position of item in items
  data,                  \* the four accumulators
  conditions_to_remove,
  log,                   \* the calls of logging.info / warning / error, in order
  reads,                 \* what pd.read_csv returned, in order
  lookups,               \* the index lookups made (.values[0]), in order
  fs,                    \* the files of the index and output directories
  exit_status,           \* << >> while running, then << 0 >> or << 1 >>
  raised                 \* the exception that ended the process, "" if none

vars ==
  << conditions, index_file, pc, ci, entries, items, fi, data,
     conditions_to_remove, log, reads, lookups, fs, exit_status, raised >>

EmptyData == [sample |-> << >>, condition |-> << >>, frame |-> << >>, RMSD |-> << >>]

Msg(level, msg, about) == [level |-> level, msg |-> msg, about |-> about]

\* n copies of v: [v] * n.
Repeat(v, n) == [p \in 1..n |-> v]

\* index_samples[index_samples["sample"] == key]["index"].values : the index
\* of every row that matches, in sheet order.
values_sample(key) ==
  LET hit == SelectSeq(sheet_samples, LAMBDA r : r.sample = key)
  IN  [p \in 1..Len(hit) |-> hit[p].index]

\* A faulty lookup, for comparison: a condition that is not in the sheet gets
\* index 0.
values_condition_default(key) ==
  LET hit == SelectSeq(sheet_conditions, LAMBDA r : r.condition = key)
  IN  IF hit = << >> THEN << 0 >> ELSE [p \in 1..Len(hit) |-> hit[p].index]

\* index_conditions[index_conditions["condition"] == key]["index"].values
values_condition(key) ==
  LET hit == SelectSeq(sheet_conditions, LAMBDA r : r.condition = key)
  IN  [p \in 1..Len(hit) |-> hit[p].index]

\* os.path.join(os.path.dirname(data_out_path), os.path.basename(index_file))
destination_index_file == [dir |-> data_out_path.dir, base |-> index_file.base]

\* The state extract_rmsd starts in, for a manifest and an index path: the two
\* lines the main block logged, the index file on the disk, no output file.
Start(manifest, index_path) ==
  /\ conditions = manifest
  /\ index_file = index_path
  /\ pc = "cond"
  /\ ci = 1
  /\ entries = {}
  /\ items = << >>
  /\ fi = 0
  /\ data = EmptyData
  /\ conditions_to_remove = << >>
  /\ log = << Msg("INFO", "version", << >>), Msg("INFO", "CMD", << >>) >>
  /\ reads = << >>
  /\ lookups = << >>
  /\ fs = [p \in {index_path} |-> [kind |-> "xlsx", table |-> EmptyData]]
  /\ exit_status = << >>
  /\ raised = ""

Init == \E manifest \in Manifests, index_path \in IndexPaths : Start(manifest, index_path)

\* The runs over one directory: a manifest of one row.
InitParse ==
  \E manifest \in { m \in Manifests : Len(m) = 1 }, index_path \in IndexPaths :
     Start(manifest, index_path)

(***************************************************************************)
(* The loop over the conditions (lines 88-96)                              *)
(***************************************************************************)

row_condition == conditions[ci]

\* os.listdir(row_condition["path"]): the directory holds any of the names.
ListDir(listing) ==
  /\ pc = "cond"
  /\ entries' = listing
  /\ pc' = "filter"
  /\ UNCHANGED << conditions, index_file, ci, items, fi, data,
                  conditions_to_remove, log, reads, lookups, fs, exit_status,
                  raised >>

\* by_condition, from what os.listdir returned.
by_condition == { fn \in entries : IsKeptOf[fn] }

\* Where the run goes once the files of row ci are done: the next row, or past
\* the loop.
AfterCondition == IF ci < Len(conditions) THEN "cond" ELSE "write"

\* No kept file: the row is skipped.
SkipCondition ==
  /\ pc = "filter"
  /\ by_condition = {}
  /\ entries' = {}
  /\ conditions_to_remove' = Append(conditions_to_remove, row_condition.condition)
  /\ log' = Append(log, Msg("WARNING", "no RMSD files", << row_condition.condition >>))
  /\ pc' = AfterCondition
  /\ ci' = ci + 1
  /\ UNCHANGED << conditions, index_file, items, fi, data, reads, lookups, fs,
                  exit_status, raised >>

\* One kept file or more: the loop over the sorted names starts.
RetrieveCondition ==
  /\ pc = "filter"
  /\ by_condition # {}
  /\ entries' = {}
  /\ items' = sortedOf[by_condition]
  /\ fi' = 1
  /\ log' = Append(log, Msg("INFO", "Retrieving",
                            << Cardinality(by_condition), row_condition.condition >>))
  /\ pc' = "file"
  /\ UNCHANGED << conditions, index_file, ci, data, conditions_to_remove, reads,
                  lookups, fs, exit_status, raised >>

(***************************************************************************)
(* One pass of the loop over the files (lines 97-119)                      *)
(***************************************************************************)

item == items[fi]

match == pattern_searchOf[item]

sample == match[1]

\* sys.exit(1), or an exception nobody catches: the interpreter ends the process
\* with status 1.
Exit1(exception) ==
  /\ pc' = "exited"
  /\ exit_status' = << 1 >>
  /\ raised' = exception

\* A faulty assignment, for comparison: the index is added once, not once a frame.
add_sample_once(d, index, current_frames) ==
  [d EXCEPT !.sample = @ \o << index >>]

\* data["sample"] = data["sample"] + [index] * len(current_frames)
add_sample(d, index, current_frames) ==
  [d EXCEPT !.sample = @ \o Repeat(index, Len(current_frames))]

\* data["condition"] = data["condition"] + [index] * len(current_frames)
add_condition(d, index, current_frames) ==
  [d EXCEPT !.condition = @ \o Repeat(index, Len(current_frames))]

\* data["frame"] = data["frame"] + current_frames
add_frame(d, current_frames) == [d EXCEPT !.frame = @ \o current_frames]

\* data["RMSD"] = data["RMSD"] + df_current["RMSD"].to_list()
add_RMSD(d, df_current) == [d EXCEPT !.RMSD = @ \o df_current.RMSD]

\* Faulty assignments, for comparison: each list is replaced by the file's rows
\* instead of being extended by them.
accumulate_overwrite(d, sample_index, condition_index, df_current) ==
  [ sample |-> Repeat(sample_index, Len(df_current.frames)),
    condition |-> Repeat(condition_index, Len(df_current.frames)),
    frame |-> df_current.frames,
    RMSD |-> df_current.RMSD ]

\* The four assignments of a pass in which both lookups succeed.
accumulate(d, sample_index, condition_index, df_current) ==
  add_RMSD(
    add_frame(
      add_condition(
        add_sample(d, sample_index, df_current.frames),
        condition_index, df_current.frames),
      df_current.frames),
    df_current)

\* A faulty pass, for comparison: the name that does not match is logged and
\* skipped, and the loop goes on.
FileNoMatchContinue ==
  /\ pc = "file"
  /\ match = << >>
  /\ log' = Append(log, Msg("ERROR", "No match", << item >>))
  /\ IF fi < Len(items)
       THEN /\ fi' = fi + 1
            /\ UNCHANGED << pc, ci >>
       ELSE /\ pc' = AfterCondition
            /\ ci' = ci + 1
            /\ UNCHANGED fi
  /\ UNCHANGED << conditions, index_file, entries, items, data,
                  conditions_to_remove, reads, lookups, fs, exit_status, raised >>

\* The name does not match the pattern: logging.error, sys.exit(1).
FileNoMatch ==
  /\ pc = "file"
  /\ match = << >>
  /\ log' = Append(log, Msg("ERROR", "No match", << item >>))
  /\ Exit1("SystemExit")
  /\ UNCHANGED << conditions, index_file, ci, entries, items, fi, data,
                  conditions_to_remove, reads, lookups, fs >>

\* The sample is not in sheet 1: .values[0] raises IndexError outside the try,
\* after the file was read and its frames logged.
FileSampleMissing(n) ==
  /\ pc = "file"
  /\ match # << >>
  /\ values_sample(sample) = << >>
  /\ reads' = Append(reads, [row |-> ci, item |-> item, df |-> read_csv(ci, item, n)])
  /\ log' = Append(log, Msg("INFO", "frames", << sample, n >>))
  /\ lookups' = Append(lookups, << "sample", sample >>)
  /\ Exit1("IndexError")
  /\ UNCHANGED << conditions, index_file, ci, entries, items, fi, data,
                  conditions_to_remove, fs >>

\* The condition is not in sheet 2: .values[0] raises IndexError inside the try,
\* after data["sample"] was extended; logging.error, sys.exit(1).
FileConditionMissing(n) ==
  /\ pc = "file"
  /\ match # << >>
  /\ values_sample(sample) # << >>
  /\ values_condition(row_condition.condition) = << >>
  /\ reads' = Append(reads, [row |-> ci, item |-> item, df |-> read_csv(ci, item, n)])
  /\ lookups' = lookups \o << << "sample", sample >>,
                              << "condition", row_condition.condition >> >>
  /\ data' = add_sample(data, values_sample(sample)[1], read_csv(ci, item, n).frames)
  /\ log' = log \o << Msg("INFO", "frames", << sample, n >>),
                      Msg("ERROR", "does not exists in the second tab",
                          << row_condition.condition, index_file >>) >>
  /\ Exit1("SystemExit")
  /\ UNCHANGED << conditions, index_file, ci, entries, items, fi,
                  conditions_to_remove, fs >>

\* Both lookups succeed: the four accumulators grow by the file's frames, and
\* the loop goes on with the next name, the next row, or the code after the loop.
FileAppend(n) ==
  /\ pc = "file"
  /\ match # << >>
  /\ values_sample(sample) # << >>
  /\ values_condition(row_condition.condition) # << >>
  /\ reads' = Append(reads, [row |-> ci, item |-> item, df |-> read_csv(ci, item, n)])
  /\ log' = Append(log, Msg("INFO", "frames", << sample, n >>))
  /\ lookups' = lookups \o << << "sample", sample >>,
                              << "condition", row_condition.condition >> >>
  /\ data' = accumulate(data, values_sample(sample)[1],
                        values_condition(row_condition.condition)[1],
                        read_csv(ci, item, n))
  /\ IF fi < Len(items)
       THEN /\ fi' = fi + 1
            /\ UNCHANGED << pc, ci >>
       ELSE /\ pc' = AfterCondition
            /\ ci' = ci + 1
            /\ UNCHANGED fi
  /\ UNCHANGED << conditions, index_file, entries, items, conditions_to_remove,
                  fs, exit_status, raised >>

(***************************************************************************)
(* After the loop (lines 121-127), and the end of the main block           *)
(***************************************************************************)

\* pd.DataFrame.from_dict: the columns must have one length.
SameLength(d) ==
  /\ Len(d.sample) = Len(d.condition)
  /\ Len(d.condition) = Len(d.frame)
  /\ Len(d.frame) = Len(d.RMSD)

\* df.to_csv(data_out_path): the file is created or overwritten.
to_csv(files, path, d) ==
  [p \in DOMAIN files \cup {path} |->
     IF p = path THEN [kind |-> "csv", table |-> d] ELSE files[p]]

\* shutil.copyfile(src, dst) of two different files.
copyfile(files, src, dst) ==
  [p \in DOMAIN files \cup {dst} |-> IF p = dst THEN files[src] ELSE files[p]]

\* Lines 121-123.
WriteCsv ==
  /\ pc = "write"
  /\ IF SameLength(data)
       THEN /\ fs' = to_csv(fs, data_out_path, data)
            /\ log' = Append(log, Msg("INFO", "written", << data_out_path >>))
            /\ pc' = "copy"
            /\ UNCHANGED << exit_status, raised >>
       ELSE /\ Exit1("ValueError")
            /\ UNCHANGED << fs, log >>
  /\ UNCHANGED << conditions, index_file, ci, entries, items, fi, data,
                  conditions_to_remove, reads, lookups >>

\* Lines 125-127, then the script ends: status 0.
CopyIndex ==
  /\ pc = "copy"
  /\ destination_index_file # index_file
  /\ fs' = copyfile(fs, index_file, destination_index_file)
  /\ log' = Append(log, Msg("INFO", "Index file copied", << destination_index_file >>))
  /\ pc' = "done"
  /\ exit_status' = << 0 >>
  /\ UNCHANGED << conditions, index_file, ci, entries, items, fi, data,
                  conditions_to_remove, reads, lookups, raised >>

\* Line 126 when source and destination are one file: shutil.copyfile raises
\* SameFileError, which nobody catches.
CopySameFile ==
  /\ pc = "copy"
  /\ destination_index_file = index_file
  /\ Exit1("SameFileError")
  /\ UNCHANGED << conditions, index_file, ci, entries, items, fi, data,
                  conditions_to_remove, log, reads, lookups, fs >>

Next ==
  \/ \E listing \in Listings : ListDir(listing)
  \/ SkipCondition
  \/ RetrieveCondition
  \/ FileNoMatch
  \/ \E n \in 0..MaxFrames : FileSampleMissing(n)
  \/ \E n \in 0..MaxFrames : FileConditionMissing(n)
  \/ \E n \in 0..MaxFrames : FileAppend(n)
  \/ WriteCsv
  \/ CopyIndex
  \/ CopySameFile

Spec == Init /\ [][Next]_vars

NextParse ==
  \/ \E listing \in ParseListings : ListDir(listing)
  \/ SkipCondition
  \/ RetrieveCondition
  \/ FileNoMatch
  \/ \E n \in 0..MaxFrames : FileSampleMissing(n)
  \/ \E n \in 0..MaxFrames : FileConditionMissing(n)
  \/ \E n \in 0..MaxFrames : FileAppend(n)
  \/ WriteCsv
  \/ CopyIndex
  \/ CopySameFile

SpecParse == InitParse /\ [][NextParse]_vars

(***************************************************************************)
(* What the claims speak of                                                *)
(***************************************************************************)

Written == data_out_path \in DOMAIN fs

\* The disk is as it was before the run: no output file, no copy of the index.
NothingWritten == fs = [p \in {index_file} |-> [kind |-> "xlsx", table |-> EmptyData]]

Succeeded == pc = "done" /\ exit_status = << 0 >>

Last(q) == q[Len(q)]

InSheet1(name) == \E i \in DOMAIN sheet_samples : sheet_samples[i].sample = name

InSheet2(name) == \E i \in DOMAIN sheet_conditions : sheet_conditions[i].condition = name

\* The index of the first row of a sheet that names `name`.
FirstSampleIndex(name) ==
  sheet_samples[Min({ i \in DOMAIN sheet_samples : sheet_samples[i].sample = name })].index

FirstConditionIndex(name) ==
  sheet_conditions[Min({ i \in DOMAIN sheet_conditions :
                           sheet_conditions[i].condition = name })].index

\* The rows of a table held as four columns of one length.
Table(d) ==
  [p \in 1..Len(d.frame) |->
     [sample |-> d.sample[p], condition |-> d.condition[p],
      frame |-> d.frame[p], RMSD |-> d.RMSD[p]]]

\* The rows one file that was read stands for: its frames in file order, each
\* with the index of the file's sample and of its row's condition.
RowsOf(r) ==
  [p \in 1..Len(r.df.frames) |->
     [sample |-> FirstSampleIndex(pattern_searchOf[r.item][1]),
      condition |-> FirstConditionIndex(conditions[r.row].condition),
      frame |-> r.df.frames[p], RMSD |-> r.df.RMSD[p]]]

RECURSIVE Flatten(_)
Flatten(rs) == IF rs = << >> THEN << >> ELSE RowsOf(Head(rs)) \o Flatten(Tail(rs))

RECURSIVE SumFrames(_)
SumFrames(rs) ==
  IF rs = << >> THEN 0 ELSE Len(Head(rs).df.frames) + SumFrames(Tail(rs))

\* The files read for manifest row i.
ReadsOfRow(i) == SelectSeq(reads, LAMBDA r : r.row = i)

\* Row i was skipped / was found to hold n kept files, by what the run logged.
LoggedSkipped(i) ==
  \E k \in DOMAIN log :
     /\ log[k].msg = "no RMSD files"
     /\ log[k].about = << conditions[i].condition >>

LoggedKept(i, n) ==
  \E k \in DOMAIN log :
     /\ log[k].msg = "Retrieving"
     /\ log[k].about = << n, conditions[i].condition >>

\* Every row of the manifest was skipped or had each of its kept files read once.
AllFilesRead ==
  \A i \in DOMAIN conditions :
     \/ LoggedSkipped(i) /\ ReadsOfRow(i) = << >>
     \/ /\ LoggedKept(i, Len(ReadsOfRow(i)))
        /\ \A a, b \in DOMAIN ReadsOfRow(i) :
              a # b => ReadsOfRow(i)[a].item # ReadsOfRow(i)[b].item

(***************************************************************************)
(* C1: the table written has as many rows as the files of the conditions   *)
(* that were not skipped have frames, every kept file of such a condition  *)
(* counted once: no row is lost or doubled.                                *)
(***************************************************************************)
C1_RowCount ==
  Written =>
    /\ AllFilesRead
    /\ SameLength(fs[data_out_path].table)
    /\ Len(fs[data_out_path].table.frame) = SumFrames(reads)

\* A successful run with a skipped row, two files read and three rows or more.
C1_Witness ==
  /\ Succeeded
  /\ conditions_to_remove # << >>
  /\ Len(reads) >= 2
  /\ Len(fs[data_out_path].table.frame) >= 3

\* The files were read in manifest order of their rows and, within a row, in
\* ascending order of their names.
ReadsInOrder ==
  \A k \in 1..(Len(reads) - 1) :
     \/ reads[k].row < reads[k + 1].row
     \/ /\ reads[k].row = reads[k + 1].row
        /\ StrLess(reads[k].item, reads[k + 1].item)

(***************************************************************************)
(* C6: the rows of the table written are those of the files read, file     *)
(* after file with each file's frames in file order; the files come in     *)
(* manifest order of their rows and, within a row, in ascending order of   *)
(* their names.                                                            *)
(***************************************************************************)
C6_RowOrder ==
  Written =>
    /\ SameLength(fs[data_out_path].table)
    /\ Table(fs[data_out_path].table) = Flatten(reads)
    /\ ReadsInOrder

\* A table written from two files of one row, the second with two frames or more,
\* after a row that was skipped.
C6_Witness ==
  /\ Written
  /\ Len(reads) >= 2
  /\ reads[1].row = reads[2].row
  /\ Len(reads[2].df.frames) >= 2
  /\ Len(reads[1].df.frames) >= 1
  /\ conditions_to_remove # << >>

(***************************************************************************)
(* C9: whenever the run has not exited, the four accumulators have one     *)
(* length and row by row hold the indices, the frame and the RMSD of the   *)
(* file the row comes from; they differ in length only once the process    *)
(* has exited with status 1 and nothing written.                           *)
(***************************************************************************)
C9_Accumulators ==
  /\ pc # "exited" => SameLength(data) /\ Table(data) = Flatten(reads)
  /\ ~ SameLength(data) =>
        pc = "exited" /\ exit_status = << 1 >> /\ NothingWritten

\* The run is between two files with rows accumulated from a file.
C9_Witness ==
  /\ pc = "file"
  /\ fi = 2
  /\ Len(data.frame) >= 2

\* The accumulators differ in length: the condition lookup failed.
C9_WitnessUnequal == ~ SameLength(data)

ErrorLogged == \E k \in DOMAIN log : log[k].level = "ERROR"

(***************************************************************************)
(* C3: once an error was logged or a lookup raised IndexError, the disk is *)
(* as before the run: no output file written, no index file copied; and an *)
(* output file exists only once the loop has gone through every row of the *)
(* manifest.                                                               *)
(***************************************************************************)
C3_WriteAfterLoop ==
  /\ (ErrorLogged \/ raised = "IndexError") => NothingWritten
  /\ Written => ci = Len(conditions) + 1 /\ pc \in {"copy", "done", "exited"}

\* A fatal condition after rows were accumulated from two files.
C3_Witness ==
  /\ pc = "exited"
  /\ raised \in {"SystemExit", "IndexError"}
  /\ Len(data.frame) >= 2
  /\ Len(reads) >= 3

AbsentConditionInManifest ==
  \E i \in DOMAIN conditions : ~ InSheet2(conditions[i].condition)

(***************************************************************************)
(* C2, as claimed: a manifest that names a condition missing from sheet 2  *)
(* never gets an output file written and never ends with status 0.         *)
(***************************************************************************)
C2_AbsentConditionAlwaysFatal ==
  AbsentConditionInManifest => ~ Written /\ ~ Succeeded

\* Row i was found to hold a kept file.
LoggedRetrieved(i) ==
  \E k \in DOMAIN log :
     /\ log[k].msg = "Retrieving"
     /\ log[k].about[2] = conditions[i].condition

(***************************************************************************)
(* C2, amended: once a row whose condition is missing from sheet 2 was     *)
(* found to hold a kept file, the run is at the first file of that row     *)
(* with a pass that exits enabled and none that goes on, or it has exited  *)
(* with status 1 at that file; nothing is written in either case.          *)
(***************************************************************************)
C2_AbsentConditionWithFiles ==
  \A i \in DOMAIN conditions :
     (~ InSheet2(conditions[i].condition) /\ LoggedRetrieved(i)) =>
        /\ ci = i
        /\ fi = 1
        /\ NothingWritten
        /\ \/ /\ pc = "file"
              /\ exit_status = << >>
              /\ ENABLED (\/ FileNoMatch
                          \/ \E n \in 0..MaxFrames : FileSampleMissing(n)
                          \/ \E n \in 0..MaxFrames : FileConditionMissing(n))
              /\ ~ ENABLED (\E n \in 0..MaxFrames : FileAppend(n))
           \/ /\ pc = "exited"
              /\ exit_status = << 1 >>

\* The condition lookup failed after a file of an earlier row was accumulated.
C2_Witness ==
  /\ pc = "exited"
  /\ Last(log).msg = "does not exists in the second tab"
  /\ Len(reads) >= 2
  /\ Len(data.frame) >= 1

(***************************************************************************)
(* C4, as claimed: a run ended by a name that does not match, by a         *)
(* condition missing from sheet 2 or by a sample missing from sheet 1 has  *)
(* status 1 and an error message as the last line logged.                  *)
(***************************************************************************)
C4_FatalLogsError ==
  (pc = "exited" /\ raised \in {"SystemExit", "IndexError"}) =>
     /\ exit_status = << 1 >>
     /\ Last(log).level = "ERROR"

\* No name of the listing starts with RMSD, has no histogram in it and ends
\* with .csv.
NoKeptName(listing) ==
  ~ \E fn \in listing :
       /\ startswith(fn, lit_RMSD)
       /\ ~ contains(fn, lit_histogram)
       /\ endswith(fn, lit_csv)

\* The step taken from a listing with no kept name.
C5_SkipStep ==
  (pc = "filter" /\ NoKeptName(entries)) =>
     /\ pc' = IF ci < Len(conditions) THEN "cond" ELSE "write"
     /\ ci' = ci + 1
     /\ conditions_to_remove' = Append(conditions_to_remove, conditions[ci].condition)
     /\ Last(log').level = "WARNING"
     /\ UNCHANGED << data, reads, lookups, fs, exit_status, raised >>

\* The rows of a table whose condition index is that of manifest row i.
RowsOfCondition(d, i) ==
  { p \in DOMAIN d.condition :
       /\ InSheet2(conditions[i].condition)
       /\ d.condition[p] = FirstConditionIndex(conditions[i].condition) }

Skipped(i) == \E k \in DOMAIN conditions_to_remove :
                 conditions_to_remove[k] = conditions[i].condition

\* What a table written holds of the skipped rows and of the other rows.
C5_OthersProcessed ==
  Written =>
    \A i \in DOMAIN conditions :
       IF Skipped(i)
         THEN /\ ReadsOfRow(i) = << >>
              /\ RowsOfCondition(fs[data_out_path].table, i) = {}
              /\ \A k \in DOMAIN lookups :
                    lookups[k] # << "condition", conditions[i].condition >>
         ELSE /\ LoggedKept(i, Len(ReadsOfRow(i)))
              /\ Cardinality(RowsOfCondition(fs[data_out_path].table, i))
                   = SumFrames(ReadsOfRow(i))

(***************************************************************************)
(* C5: a listing with no name that starts with RMSD, has no histogram in   *)
(* it and ends with .csv is passed over: the run goes on with the next row *)
(* or the code after the loop, the accumulators, the files read, the       *)
(* lookups made and the disk unchanged, the condition noted as skipped;    *)
(* and in a table that was written every skipped row has no file read, no  *)
(* lookup of its name and no rows, while every other row has each of its   *)
(* kept files read and all their frames in the table.                      *)
(***************************************************************************)
C5_SkipIsNotFatal == [][C5_SkipStep]_vars /\ []C5_OthersProcessed

\* A successful run that skipped one row, whose condition is missing from sheet
\* 2, and took rows from another row.
C5_Witness ==
  /\ Succeeded
  /\ Len(conditions) >= 2
  /\ Len(conditions_to_remove) = 1
  /\ ~ InSheet2(conditions_to_remove[1])
  /\ Len(fs[data_out_path].table.frame) >= 1

\* A listing that holds only a histogram file is being filtered.
C5_WitnessHistogram ==
  /\ pc = "filter"
  /\ entries = {fn_hist}

\* The positions in the log of the lines that carry a message.
LoggedAt(msg) == { k \in DOMAIN log : log[k].msg = msg }

(***************************************************************************)
(* C8, as claimed: a run without a fatal condition ends with status 0, the *)
(* output file written and then the index file copied beside it under its  *)
(* own name, wherever the index file lies.                                 *)
(***************************************************************************)
C8_IndexCopied ==
  (pc \in {"done", "exited"} /\ ~ ErrorLogged /\ raised # "IndexError") =>
     /\ exit_status = << 0 >>
     /\ Written
     /\ destination_index_file \in DOMAIN fs
     /\ fs[destination_index_file].kind = "xlsx"
     /\ \E w \in LoggedAt("written"), c \in LoggedAt("Index file copied") : w < c

(***************************************************************************)
(* C10, as claimed: a run that skipped every row of the manifest made no   *)
(* lookup, wrote a table of no row, copied the index file and ended with   *)
(* status 0.                                                               *)
(***************************************************************************)
C10_AllSkipped ==
  (pc \in {"done", "exited"} /\ Len(conditions_to_remove) = Len(conditions)) =>
     /\ lookups = << >>
     /\ Written
     /\ fs[data_out_path].table = EmptyData
     /\ \E c \in LoggedAt("Index file copied") : TRUE
     /\ exit_status = << 0 >>

(***************************************************************************)
(* The readings of a file name                                             *)
(***************************************************************************)

\* The ways to read a name as RMSD_<sample>_<anything>.csv with a sample and an
\* anything of one character or more: the position j of the sample's last
\* character.  An underscore may belong to either part, so a name can have
\* several.
Splits(fn) ==
  { j \in 6..(Len(fn) - 6) :
      /\ HasAt(fn, 1, lit_RMSD_)
      /\ fn[j + 1] = "_"
      /\ HasAt(fn, Len(fn) - 3, lit_csv) }

SampleOfSplit(fn, j) == SubSeq(fn, 6, j)

(***************************************************************************)
(* C7, as claimed: whichever way the name at hand reads as                 *)
(* RMSD_<sample>_<anything>.csv, the sample extracted is that <sample>.    *)
(***************************************************************************)
C7_SampleOfEverySplit ==
  pc = "file" =>
    \A j \in Splits(item) : pattern_searchOf[item] = << SampleOfSplit(item, j) >>

(***************************************************************************)
(* C7, amended: the sample extracted from a kept name that reads as        *)
(* RMSD_<sample>_<anything>.csv is the longest such <sample>, and it is    *)
(* the name looked up in sheet 1; a kept name that does not read so has no *)
(* match, its pass can only exit, the run ends with status 1 by sys.exit   *)
(* with no file read and nothing written, and no table is ever written     *)
(* after such a name was met.                                              *)
(***************************************************************************)
C7_LongestSample ==
  /\ pc = "file" =>
        IF Splits(item) = {}
          THEN /\ pattern_searchOf[item] = << >>
               /\ ENABLED FileNoMatch
               /\ ~ ENABLED (\E n \in 0..MaxFrames :
                               FileSampleMissing(n) \/ FileConditionMissing(n)
                                 \/ FileAppend(n))
          ELSE pattern_searchOf[item] = << SampleOfSplit(item, Max(Splits(item))) >>
  /\ \A k \in DOMAIN reads :
        /\ Splits(reads[k].item) # {}
        /\ \E l \in DOMAIN lookups :
              lookups[l] = << "sample",
                              SampleOfSplit(reads[k].item, Max(Splits(reads[k].item))) >>
  /\ (pc = "exited" /\ fi >= 1 /\ Splits(items[fi]) = {}) =>
        /\ exit_status = << 1 >>
        /\ raised = "SystemExit"
        /\ Last(log).msg = "No match"
        /\ NothingWritten
  /\ Written => \A k \in DOMAIN items : Splits(items[k]) # {}

\* A table written from a file whose name reads two ways or more.
C7_Witness ==
  /\ Written
  /\ Len(reads) = 1
  /\ Cardinality(Splits(reads[1].item)) >= 2
  /\ lookups[1] = << "sample", s_a_a >>

\* A kept name that does not read as RMSD_<sample>_<anything>.csv ended the run.
C7_WitnessNoMatch ==
  /\ pc = "exited"
  /\ Last(log).msg = "No match"
  /\ startswith(items[fi], lit_RMSD_)

====
